---- MODULE Spec2Model ----
(***************************************************************************)
(* A model of the Japanese-lesson web client: the structured lesson page   *)
(* (app/lesson/page.tsx), the podcast lesson page and the quiz component   *)
(* LessonContent they both render, together with the requests of lib/api.  *)
(* One behaviour is the life of one mounted page: user actions (log in,    *)
(* log out, answer, next, restart) and network completions interleave.     *)
(***************************************************************************)
EXTENDS Integers, Sequences, FiniteSets, TLC

(* ------------------------------ bounds --------------------------------- *)

\* Longest lesson the backend returns in the page model.
MaxExercises == 2

\* Lesson fetches issued in one behaviour (caps the run).
MaxLoads == 3

\* Longest lesson of the scoring specification: the shortest lesson whose
\* questions_correct can differ from the number of correct answers has 101.
MaxScoreN == 101

\* Longest list GET /podcasts answers with.
MaxPodcasts == 1

\* Longest text typed in the library's URL field.
MaxUrlLen == 2

\* Largest totalWords of a podcast handed to a PodcastItem.
MaxWords == 2

\* Longest lesson /api/lesson answers JapaneseTutor with.
MaxTutorExercises == 2

\* Largest lessonNumber JapaneseTutor reaches (caps the run).
MaxLessonNumber == 2

\* setTimeout callbacks of JapaneseTutor pending at once (caps the run).
MaxTimers == 1

\* Longest body text the backend answers the route with.
MaxBodyLen == 3

(* ----------------------------- constants ------------------------------- *)

NULL == "null"

\* useState<LessonData | null>(null): the empty sequence is null, <<d>> is d.
NoLesson == <<>>

\* The signed-in user's uid (user.uid).
Uid == "u1"

\* params.id of the podcast lesson route.
EpisodeId == "ep1"

\* api.getLesson's default lessonNumber parameter.
DefaultLessonNumber == 1

\* The 53-bit significand of a JavaScript Number is held as 1 + 4 * 13 bits.
LimbBits == 13

LimbBase == 2 ^ LimbBits

LoadFailedMessage == "Failed to load lesson. Please try again."

NewLoadFailedMessage == "Failed to load new lesson. Please try again."

(* --------------------- JavaScript Number arithmetic -------------------- *)
(* A positive Number is [s, e]: s the 53-bit significand as five limbs,    *)
(* the first the leading 1 and the others 13 bits each, most significant   *)
(* first; its value is s * 2^e.  Division and multiplication round to      *)
(* nearest, ties to even, as IEEE 754 binary64 does.                       *)

FZero == [s |-> <<>>, e |-> 0]

\* Scales a / b into [1, 2): a / b = (n.a / n.b) * 2^(-n.k).
RECURSIVE Normalize(_, _, _)
Normalize(a, b, k) ==
    IF a < b THEN Normalize(2 * a, b, k + 1)
    ELSE IF a >= 2 * b THEN Normalize(a, 2 * b, k - 1)
    ELSE [a |-> a, b |-> b, k |-> k]

\* Long division of the limbs <<top>> \o low by d: the quotient and the remainder.
Quotient(top, low, d) ==
    LET t1 == (top % d) * LimbBase + low[1]
        t2 == (t1 % d) * LimbBase + low[2]
        t3 == (t2 % d) * LimbBase + low[3]
        t4 == (t3 % d) * LimbBase + low[4]
    IN [s |-> <<top \div d, t1 \div d, t2 \div d, t3 \div d, t4 \div d>>,
        rem |-> t4 % d]

\* The significand plus one unit in the last place.
Successor(s) ==
    LET c4 == (s[5] + 1) \div LimbBase
        c3 == (s[4] + c4) \div LimbBase
        c2 == (s[3] + c3) \div LimbBase
        c1 == (s[2] + c2) \div LimbBase
    IN <<s[1] + c1, (s[2] + c2) % LimbBase, (s[3] + c3) % LimbBase,
         (s[4] + c4) % LimbBase, (s[5] + 1) % LimbBase>>

\* Rounds the quotient q of a division by d to 53 bits.
RoundToNearestEven(q, d, e) ==
    LET up == 2 * q.rem > d \/ (2 * q.rem = d /\ q.s[5] % 2 = 1)
        inc == Successor(q.s)
    IN IF ~up THEN [s |-> q.s, e |-> e]
       ELSE IF inc[1] = 2 THEN [s |-> <<1, 0, 0, 0, 0>>, e |-> e + 1]
       ELSE [s |-> inc, e |-> e]

\* a / b for integers a >= 0, b >= 1, as a Number.
FDiv(a, b) ==
    IF a = 0 THEN FZero
    ELSE LET n == Normalize(a, b, 0)
         IN RoundToNearestEven(Quotient(n.a, <<0, 0, 0, 0>>, n.b), n.b,
                               0 - n.k - 4 * LimbBits)

BitLength(t) == CHOOSE n \in 1..30 : 2 ^ (n - 1) <= t /\ t < 2 ^ n

\* f * k for a Number f and an integer 0 <= k < 2^17, as a Number.
FMul(f, k) ==
    IF f = FZero \/ k = 0 THEN FZero
    ELSE LET t4 == f.s[5] * k
             t3 == f.s[4] * k + t4 \div LimbBase
             t2 == f.s[3] * k + t3 \div LimbBase
             t1 == f.s[2] * k + t2 \div LimbBase
             top == f.s[1] * k + t1 \div LimbBase
             low == <<t1 % LimbBase, t2 % LimbBase, t3 % LimbBase, t4 % LimbBase>>
             sh == BitLength(top) - 1
         IN RoundToNearestEven(Quotient(top, low, 2 ^ sh), 2 ^ sh, f.e + sh)

\* Math.round of a Number below 2^26: floor(x + 1/2), computed from floor(2x).
MathRound(f) ==
    IF f = FZero THEN 0
    ELSE LET j == (0 - f.e) - 1
             w == j \div LimbBits
             head == IF w >= 5 THEN 0
                     ELSE IF w = 4 THEN f.s[1]
                     ELSE IF w = 3 THEN f.s[1] * LimbBase + f.s[2]
                     ELSE (f.s[1] * LimbBase + f.s[2]) * LimbBase + f.s[3]
             twice == IF w >= 5 THEN 0 ELSE head \div (2 ^ (j % LimbBits))
         IN (twice + 1) \div 2

\* Math.round((correctAnswers / lesson.exercises.length) * 100)
ScoreOf(correct, total) == MathRound(FMul(FDiv(correct, total), 100))

\* Math.round((finalScore / 100) * lesson.exercises.length)
QuestionsCorrect(finalScore, total) == MathRound(FMul(FDiv(finalScore, 100), total))

(* ------------------------------- data ---------------------------------- *)

\* Exercises with options, differing in which option is correct and in
\* whether they carry the optional audio_url.
AnswerableKinds ==
    { [word |-> "w1", options |-> <<"a", "b">>, correct |-> "a", audio_url |-> NULL],
      [word |-> "w2", options |-> <<"a", "b">>, correct |-> "b",
       audio_url |-> "w2.mp3"] }

\* An exercise the backend sent with no options.
NoOptionsExercise ==
    [word |-> "w0", options |-> <<>>, correct |-> "a", audio_url |-> NULL]

SeqsUpTo(S, n) == UNION { [1..k -> S] : k \in 0..n }

\* The LessonData the backend answers with: every lesson of up to MaxExercises
\* answerable exercises (the empty one included), carrying a lesson_number,
\* one lesson whose exercise has no options, and one without lesson_number
\* (0 stands for the absent field).
Lessons ==
    { [exercises |-> e, lesson_number |-> 2] :
        e \in SeqsUpTo(AnswerableKinds, MaxExercises) }
    \cup { [exercises |-> <<NoOptionsExercise>>, lesson_number |-> 2],
           [exercises |-> <<[word |-> "w1", options |-> <<"a", "b">>, correct |-> "a",
                             audio_url |-> NULL]>>,
            lesson_number |-> 0] }

RemoveAt(s, i) == SubSeq(s, 1, i - 1) \o SubSeq(s, i + 1, Len(s))

(* ------------------------------- state --------------------------------- *)

VARIABLES
    page,                 \* "lesson" | "podcastLesson" | "podcasts": the mounted route
    user,                 \* useAuth().user: NULL or Uid
    lesson, isComplete, score, error, isLoading,          \* page state
    currentQuestionIndex, correctAnswers, showingHiragana,
    selectedAnswer, isAnswered, exerciseResults,           \* LessonContent state
    inflight,             \* lesson fetches sent and not yet resolved, in issue order
    posts,                \* POST /progress sent and not yet resolved, in issue order
    fault,                \* "none", or the error that escaped to the renderer
    loadsIssued,          \* history: lesson fetches issued so far
    loadedRef,            \* history: lesson reference asked for by the Load now shown;
                          \* on the library page, the issue number of the list fetch shown
    lastEvent,            \* history: the handler or callback that ran last
    podcasts, showAddForm, newPodcastUrl,
    isProcessing, isRefreshing,                            \* PodcastLibrary state
    itemPodcast,          \* <<p>>: the podcast prop of the PodcastItem studied; <<>>: none
    itemIsProcessing, itemError,                           \* PodcastItem state
    currentLesson, currentExercise, lessonNumber,
    progress, lessonComplete,                              \* JapaneseTutor state
    timers,               \* setTimeout callbacks of JapaneseTutor not yet run
    routeRequest,         \* <<q>>: the request GET /api/lesson is serving; <<>>: none
    backendRequest,       \* <<u>>: the route's backend fetch, with its answer once it
                          \* has one; <<>>: none sent
    routeResponse         \* <<r>>: the response the route returned; <<>>: none yet

pageVars == <<lesson, isComplete, score, error, isLoading>>

quizVars == <<currentQuestionIndex, correctAnswers, showingHiragana,
              selectedAnswer, isAnswered, exerciseResults>>

\* State of PodcastLibrary beyond isLoading and error, which every page has.
libraryVars == <<podcasts, showAddForm, newPodcastUrl, isProcessing, isRefreshing>>

itemVars == <<itemPodcast, itemIsProcessing, itemError>>

tutorVars == <<currentLesson, currentExercise, lessonNumber, progress,
               lessonComplete, timers>>

routeVars == <<routeRequest, backendRequest, routeResponse>>

vars == <<page, user, lesson, isComplete, score, error, isLoading,
          currentQuestionIndex, correctAnswers, showingHiragana,
          selectedAnswer, isAnswered, exerciseResults,
          inflight, posts, fault, loadsIssued, loadedRef, lastEvent,
          podcasts, showAddForm, newPodcastUrl, isProcessing, isRefreshing,
          itemPodcast, itemIsProcessing, itemError,
          currentLesson, currentExercise, lessonNumber, progress,
          lessonComplete, timers, routeRequest, backendRequest, routeResponse>>

\* The useState initial values of JapaneseTutor; progress is a fraction
\* <<numerator, denominator>>.
TutorIdle ==
    /\ currentLesson = <<>>
    /\ currentExercise = 0
    /\ lessonNumber = 1
    /\ progress = <<0, 1>>
    /\ lessonComplete = FALSE
    /\ timers = <<>>

\* No request is being served by the route handler.
RouteIdle ==
    /\ routeRequest = <<>>
    /\ backendRequest = <<>>
    /\ routeResponse = <<>>

\* The useState initial values of PodcastLibrary (part of them) and of
\* PodcastItem: the state these components have while they are not mounted.
LibraryIdle ==
    /\ podcasts = <<>>
    /\ showAddForm = FALSE
    /\ newPodcastUrl = <<>>
    /\ isProcessing = FALSE
    /\ isRefreshing = FALSE
    /\ itemPodcast = <<>>
    /\ itemIsProcessing = FALSE
    /\ itemError = NULL
    /\ TutorIdle
    /\ RouteIdle

\* The useState initial values of LessonContent.
InitialQuiz ==
    [currentQuestionIndex |-> 0, correctAnswers |-> 0, showingHiragana |-> FALSE,
     selectedAnswer |-> NULL, isAnswered |-> FALSE, exerciseResults |-> <<>>]

CurrentQuiz ==
    [currentQuestionIndex |-> currentQuestionIndex, correctAnswers |-> correctAnswers,
     showingHiragana |-> showingHiragana, selectedAnswer |-> selectedAnswer,
     isAnswered |-> isAnswered, exerciseResults |-> exerciseResults]

\* The branch the page renders.
PageView ==
    IF page = "podcasts" THEN "library"
    ELSE IF user = NULL THEN "login"
    ELSE IF isLoading THEN "loading"
    ELSE IF error # NULL THEN "error"
    ELSE IF isComplete THEN "complete"
    ELSE IF lesson # NoLesson THEN "content"
    ELSE "blank"

\* LessonContent is in the tree.
LessonContentMounted == PageView = "content"

\* What the user sees: "quiz" is LessonContent past its empty-lesson guard.
View ==
    IF fault # "none" THEN "crash"
    ELSE IF PageView # "content" THEN PageView
    ELSE IF Len(lesson[1].exercises) = 0 THEN "empty"
    ELSE "quiz"

Init ==
    /\ page \in {"lesson", "podcastLesson"}
    /\ user = NULL
    /\ lesson = NoLesson
    /\ isComplete = FALSE
    /\ score = 0
    /\ error = NULL
    /\ isLoading = TRUE
    /\ currentQuestionIndex = 0
    /\ correctAnswers = 0
    /\ showingHiragana = FALSE
    /\ selectedAnswer = NULL
    /\ isAnswered = FALSE
    /\ exerciseResults = <<>>
    /\ inflight = <<>>
    /\ posts = <<>>
    /\ fault = "none"
    /\ loadsIssued = 0
    /\ loadedRef = 0
    /\ lastEvent = "mount"
    /\ LibraryIdle

(* ------------------------------ requests ------------------------------- *)

\* api.getLesson(userId): lessonNumber is never passed, so its default is sent.
GetLessonRequest(userId, cont) ==
    [api |-> "getLesson", user_id |-> userId,
     lesson_number |-> DefaultLessonNumber, cont |-> cont]

\* api.getPodcastLesson(userId, episodeId)
GetPodcastLessonRequest(userId, episodeId, cont) ==
    [api |-> "getPodcastLesson", user_id |-> userId,
     episode_id |-> episodeId, cont |-> cont]

\* api.saveProgress(userId, data, lessonType): POST /progress
SaveProgressRequest(userId, data, lessonType) ==
    [api |-> "saveProgress", user_id |-> userId, lesson_type |-> lessonType,
     data |-> data]

LoadRequest(p, userId, cont) ==
    IF p = "lesson" THEN GetLessonRequest(userId, cont)
    ELSE GetPodcastLessonRequest(userId, EpisodeId, cont)

(* ------------------------------ rendering ------------------------------ *)

\* The render that follows a state update of a lesson page: LessonContent
\* keeps its state q while it stays mounted and starts from its initial
\* values otherwise; a current question that does not exist throws while
\* rendering.  PodcastLibrary and PodcastItem are not in a lesson page's tree.
Render(q) ==
    LET m == LessonContentMounted'
        s == IF m THEN q ELSE InitialQuiz
    IN /\ currentQuestionIndex' = s.currentQuestionIndex
       /\ correctAnswers' = s.correctAnswers
       /\ showingHiragana' = s.showingHiragana
       /\ selectedAnswer' = s.selectedAnswer
       /\ isAnswered' = s.isAnswered
       /\ exerciseResults' = s.exerciseResults
       /\ fault' = IF /\ m
                      /\ Len(lesson'[1].exercises) > 0
                      /\ s.currentQuestionIndex >= Len(lesson'[1].exercises)
                   THEN "renderError" ELSE fault
       /\ UNCHANGED <<libraryVars, itemVars, tutorVars, routeVars>>

Mounted == fault = "none" /\ page \in {"lesson", "podcastLesson"}

(* --------------------------- identity changes -------------------------- *)

\* The user signs in (Header's Login): the pages' effect runs loadLesson.
Login ==
    /\ Mounted
    /\ user = NULL
    /\ loadsIssued < MaxLoads
    /\ user' = Uid
    /\ isLoading' = TRUE
    /\ error' = NULL
    /\ inflight' = Append(inflight, LoadRequest(page, Uid, "effect"))
    /\ loadsIssued' = loadsIssued + 1
    /\ lastEvent' = "login"
    /\ UNCHANGED <<page, lesson, isComplete, score, posts, loadedRef>>
    /\ Render(CurrentQuiz)

\* The user signs out (Header's Log out): the effect returns at once.
Logout ==
    /\ Mounted
    /\ user # NULL
    /\ user' = NULL
    /\ lastEvent' = "logout"
    /\ UNCHANGED <<page, lesson, isComplete, score, error, isLoading,
                   inflight, posts, loadsIssued, loadedRef>>
    /\ Render(CurrentQuiz)

(* ------------------------- loadLesson completions ---------------------- *)

\* The lesson reference a fetch asks for: lesson_number or episode_id.
RefOf(r) == IF r.api = "getLesson" THEN r.lesson_number ELSE r.episode_id

\* The effect's fetch resolves: setLesson(lessonData), finally setIsLoading(false).
LoadLessonResolved(i, data) ==
    /\ Mounted
    /\ i \in 1..Len(inflight)
    /\ inflight[i].cont = "effect"
    /\ lesson' = <<data>>
    /\ isLoading' = FALSE
    /\ inflight' = RemoveAt(inflight, i)
    /\ loadedRef' = RefOf(inflight[i])
    /\ lastEvent' = "effectLoaded"
    /\ UNCHANGED <<page, user, isComplete, score, error, posts, loadsIssued>>
    /\ Render(CurrentQuiz)

\* LoadLessonRejected that fetches again by itself after a failure.
LoadLessonRejectedRetrying(i) ==
    /\ Mounted
    /\ i \in 1..Len(inflight)
    /\ inflight[i].cont = "effect"
    /\ loadsIssued < MaxLoads
    /\ error' = LoadFailedMessage
    /\ isLoading' = FALSE
    /\ inflight' = Append(RemoveAt(inflight, i), inflight[i])
    /\ loadsIssued' = loadsIssued + 1
    /\ lastEvent' = "effectLoadFailed"
    /\ UNCHANGED <<page, user, lesson, isComplete, score, posts, loadedRef>>
    /\ Render(CurrentQuiz)

\* The effect's fetch rejects: setError(...), finally setIsLoading(false).
LoadLessonRejected(i) ==
    /\ Mounted
    /\ i \in 1..Len(inflight)
    /\ inflight[i].cont = "effect"
    /\ error' = LoadFailedMessage
    /\ isLoading' = FALSE
    /\ inflight' = RemoveAt(inflight, i)
    /\ lastEvent' = "effectLoadFailed"
    /\ UNCHANGED <<page, user, lesson, isComplete, score, posts, loadsIssued, loadedRef>>
    /\ Render(CurrentQuiz)

(* ------------------------------ the quiz ------------------------------- *)

CurrentQuestion == lesson[1].exercises[currentQuestionIndex + 1]

\* The letter case of an option label folded away.
FoldCase(x) == IF x = "A" THEN "a" ELSE x

\* AnswerQuiz that grades without regard to letter case.
AnswerQuizIgnoringCase(answer) ==
    IF isAnswered THEN CurrentQuiz
    ELSE LET isCorrect == FoldCase(answer) = FoldCase(CurrentQuestion.correct)
         IN [CurrentQuiz EXCEPT
               !.selectedAnswer = answer,
               !.isAnswered = TRUE,
               !.correctAnswers = IF isCorrect THEN @ + 1 ELSE @,
               !.exerciseResults =
                   Append(@, [word |-> CurrentQuestion.word, is_correct |-> isCorrect])]

\* AnswerQuiz that also moves on to the next exercise when the answer is right.
AnswerQuizAdvancing(answer) ==
    IF isAnswered THEN CurrentQuiz
    ELSE LET isCorrect == answer = CurrentQuestion.correct
         IN [CurrentQuiz EXCEPT
               !.selectedAnswer = answer,
               !.isAnswered = TRUE,
               !.currentQuestionIndex =
                   IF isCorrect /\ @ < Len(lesson[1].exercises) - 1 THEN @ + 1 ELSE @,
               !.correctAnswers = IF isCorrect THEN @ + 1 ELSE @,
               !.exerciseResults =
                   Append(@, [word |-> CurrentQuestion.word, is_correct |-> isCorrect])]

\* AnswerQuiz without its `if (isAnswered) return` guard.
AnswerQuizUnguarded(answer) ==
    LET isCorrect == answer = CurrentQuestion.correct
    IN [CurrentQuiz EXCEPT
          !.selectedAnswer = answer,
          !.isAnswered = TRUE,
          !.correctAnswers = IF isCorrect THEN @ + 1 ELSE @,
          !.exerciseResults =
              Append(@, [word |-> CurrentQuestion.word, is_correct |-> isCorrect])]

\* handleAnswer's state updates.
AnswerQuiz(answer) ==
    IF isAnswered THEN CurrentQuiz
    ELSE LET isCorrect == answer = CurrentQuestion.correct
         IN [CurrentQuiz EXCEPT
               !.selectedAnswer = answer,
               !.isAnswered = TRUE,
               !.correctAnswers = IF isCorrect THEN @ + 1 ELSE @,
               !.exerciseResults =
                   Append(@, [word |-> CurrentQuestion.word, is_correct |-> isCorrect])]

\* An option button's onClick.
HandleAnswer(answer) ==
    /\ View = "quiz"
    /\ \E k \in 1..Len(CurrentQuestion.options) : CurrentQuestion.options[k] = answer
    /\ lastEvent' = IF isAnswered THEN "handleAnswerAgain" ELSE "handleAnswer"
    /\ UNCHANGED <<page, user, lesson, isComplete, score, error, isLoading,
                   inflight, posts, loadsIssued, loadedRef>>
    /\ Render(AnswerQuiz(answer))

\* The data handleComplete submits.
ProgressData(finalScore, results) ==
    LET total == Len(lesson[1].exercises)
        common == [completed |-> TRUE, score |-> finalScore,
                   questions_total |-> total,
                   questions_correct |-> QuestionsCorrect(finalScore, total),
                   exercises |-> results]
    IN IF page = "lesson"
       THEN [lesson_number |->
                IF lesson[1].lesson_number # 0 THEN lesson[1].lesson_number ELSE 1]
            @@ common
       ELSE [lesson_id |-> EpisodeId] @@ common

\* saveProgress called without its third argument on both pages.
LessonTypeDefaulted == "regular"

LessonType == IF page = "lesson" THEN "regular" ELSE "podcast"

\* HandleComplete that shows the completion screen and never saves.
HandleCompleteWithoutSave(finalScore, results) ==
    IF user = NULL \/ lesson = NoLesson
    THEN UNCHANGED <<score, isComplete, posts>>
    ELSE /\ score' = finalScore
         /\ isComplete' = TRUE
         /\ UNCHANGED posts

\* handleComplete of either page, up to its await.
HandleComplete(finalScore, results) ==
    IF user = NULL \/ lesson = NoLesson
    THEN UNCHANGED <<score, isComplete, posts>>
    ELSE /\ score' = finalScore
         /\ isComplete' = TRUE
         /\ posts' = Append(posts,
                SaveProgressRequest(user, ProgressData(finalScore, results), LessonType))

\* IsLastQuestion off by one: the next-to-last exercise already completes.
IsLastQuestionOffByOne == currentQuestionIndex >= Len(lesson[1].exercises) - 2

\* currentQuestionIndex === lesson.exercises.length - 1
IsLastQuestion == currentQuestionIndex = Len(lesson[1].exercises) - 1

\* A feedback block, and with it the Next button, shown at all times.
NextButtonAlwaysShown == TRUE

\* {isAnswered && (...)}: the feedback block holding the Next button.
NextButtonShown == isAnswered

\* The Next Question / Complete Lesson button, shown once answered.
HandleNext ==
    /\ View = "quiz"
    /\ NextButtonShown
    /\ lastEvent' = "handleNext"
    /\ UNCHANGED <<page, user, lesson, error, isLoading, inflight, loadsIssued,
                   loadedRef>>
    /\ IF IsLastQuestion
       THEN /\ HandleComplete(ScoreOf(correctAnswers, Len(lesson[1].exercises)),
                              exerciseResults)
            /\ Render(CurrentQuiz)
       ELSE /\ UNCHANGED <<score, isComplete, posts>>
            /\ Render([CurrentQuiz EXCEPT
                         !.currentQuestionIndex = @ + 1,
                         !.selectedAnswer = NULL,
                         !.isAnswered = FALSE,
                         !.showingHiragana = FALSE])

\* The Toggle reading button.
ToggleReading ==
    /\ View = "quiz"
    /\ lastEvent' = "toggleReading"
    /\ UNCHANGED <<page, user, lesson, isComplete, score, error, isLoading,
                   inflight, posts, loadsIssued, loadedRef>>
    /\ Render([CurrentQuiz EXCEPT !.showingHiragana = ~@])

\* The Play audio button, rendered when the exercise has an audio_url:
\* new Audio(...).play() touches no component state.
PlayAudio ==
    /\ View = "quiz"
    /\ CurrentQuestion.audio_url # NULL
    /\ lastEvent' = "playAudio"
    /\ UNCHANGED <<page, user, lesson, isComplete, score, error, isLoading,
                   inflight, posts, loadsIssued, loadedRef>>
    /\ Render(CurrentQuiz)

(* ------------------------ saveProgress completions --------------------- *)

\* The POST resolves: handleComplete returns.
SaveProgressResolved(i) ==
    /\ Mounted
    /\ i \in 1..Len(posts)
    /\ posts' = RemoveAt(posts, i)
    /\ lastEvent' = "progressSaved"
    /\ UNCHANGED <<page, user, lesson, isComplete, score, error, isLoading,
                   inflight, loadsIssued, loadedRef>>
    /\ Render(CurrentQuiz)

\* SaveProgressRejected whose catch block reports the failure with setError,
\* as loadLesson's does.
SaveProgressRejectedSettingError(i) ==
    /\ Mounted
    /\ i \in 1..Len(posts)
    /\ posts' = RemoveAt(posts, i)
    /\ error' = "Failed to save progress."
    /\ lastEvent' = "progressSaveFailed"
    /\ UNCHANGED <<page, user, lesson, isComplete, score, isLoading,
                   inflight, loadsIssued, loadedRef>>
    /\ Render(CurrentQuiz)

\* The POST rejects: the catch block logs and handleComplete returns.
SaveProgressRejected(i) ==
    /\ Mounted
    /\ i \in 1..Len(posts)
    /\ posts' = RemoveAt(posts, i)
    /\ lastEvent' = "progressSaveFailed"
    /\ UNCHANGED <<page, user, lesson, isComplete, score, error, isLoading,
                   inflight, loadsIssued, loadedRef>>
    /\ Render(CurrentQuiz)

(* ------------------------------ restart -------------------------------- *)

\* The button startNewLesson was called from: the error view's Try Again or
\* the completion screen's Start New Lesson (a history tag on the request).
RestartFrom == IF View = "error" THEN "tryAgain" ELSE "nextLesson"

\* startNewLesson: Try Again (error view) and Start New Lesson (complete view).
StartNewLesson ==
    /\ page = "lesson"
    /\ View \in {"error", "complete"}
    /\ loadsIssued < MaxLoads
    /\ lesson' = NoLesson
    /\ isComplete' = FALSE
    /\ score' = 0
    /\ isLoading' = TRUE
    /\ IF user # NULL
       THEN /\ inflight' = Append(inflight, GetLessonRequest(user, RestartFrom))
            /\ loadsIssued' = loadsIssued + 1
       ELSE UNCHANGED <<inflight, loadsIssued>>
    /\ lastEvent' = "startNewLesson"
    /\ UNCHANGED <<page, user, error, posts, loadedRef>>
    /\ Render(CurrentQuiz)

\* startNewLesson's fetch resolves: setLesson(lessonData), setIsLoading(false).
NewLessonResolved(i, data) ==
    /\ Mounted
    /\ i \in 1..Len(inflight)
    /\ inflight[i].cont \in {"tryAgain", "nextLesson"}
    /\ lesson' = <<data>>
    /\ isLoading' = FALSE
    /\ inflight' = RemoveAt(inflight, i)
    /\ loadedRef' = RefOf(inflight[i])
    /\ lastEvent' = IF inflight[i].cont = "tryAgain" THEN "tryAgainLoaded"
                     ELSE "nextLessonLoaded"
    /\ UNCHANGED <<page, user, isComplete, score, error, posts, loadsIssued>>
    /\ Render(CurrentQuiz)

\* startNewLesson's fetch rejects: setError(...), setIsLoading(false).
NewLessonRejected(i) ==
    /\ Mounted
    /\ i \in 1..Len(inflight)
    /\ inflight[i].cont \in {"tryAgain", "nextLesson"}
    /\ error' = NewLoadFailedMessage
    /\ isLoading' = FALSE
    /\ inflight' = RemoveAt(inflight, i)
    /\ lastEvent' = "restartLoadFailed"
    /\ UNCHANGED <<page, user, lesson, isComplete, score, posts, loadsIssued, loadedRef>>
    /\ Render(CurrentQuiz)

\* The podcast lesson page's Return to Library and its onNextLesson:
\* router.push('/podcasts') unmounts the page, and with it its callbacks.
ReturnToLibrary ==
    /\ page = "podcastLesson"
    /\ View \in {"error", "complete"}
    /\ page' = "podcasts"
    /\ lesson' = NoLesson
    /\ isComplete' = FALSE
    /\ score' = 0
    /\ error' = NULL
    /\ isLoading' = TRUE
    /\ inflight' = <<>>
    /\ posts' = <<>>
    /\ loadedRef' = 0
    /\ lastEvent' = "returnToLibrary"
    /\ UNCHANGED <<user, loadsIssued>>
    /\ Render(CurrentQuiz)

(* --------------------------- specifications ---------------------------- *)

Next ==
    \/ Login
    \/ Logout
    \/ \E i \in 1..Len(inflight), data \in Lessons : LoadLessonResolved(i, data)
    \/ \E i \in 1..Len(inflight) : LoadLessonRejected(i)
    \/ \E answer \in {"a", "b"} : HandleAnswer(answer)
    \/ HandleNext
    \/ ToggleReading
    \/ PlayAudio
    \/ \E i \in 1..Len(posts) : SaveProgressResolved(i)
    \/ \E i \in 1..Len(posts) : SaveProgressRejected(i)
    \/ StartNewLesson
    \/ \E i \in 1..Len(inflight), data \in Lessons : NewLessonResolved(i, data)
    \/ \E i \in 1..Len(inflight) : NewLessonRejected(i)
    \/ ReturnToLibrary

Spec == Init /\ [][Next]_vars

\* The scoring specification: the quiz just before the Advance that completes
\* a lesson of n exercises of which c were answered correctly (the first c),
\* for every n up to MaxScoreN, followed by that Advance and its POST.
ScoreInit ==
    LibraryIdle /\
    \E n \in 1..MaxScoreN : \E c \in 0..n :
        /\ page = "lesson"
        /\ user = Uid
        /\ lesson = << [exercises |->
                          [k \in 1..n |->
                              [word |-> "w1", options |-> <<"a", "b">>, correct |-> "a",
                               audio_url |-> NULL]],
                        lesson_number |-> 2] >>
        /\ isComplete = FALSE
        /\ score = 0
        /\ error = NULL
        /\ isLoading = FALSE
        /\ currentQuestionIndex = n - 1
        /\ correctAnswers = c
        /\ showingHiragana = FALSE
        /\ selectedAnswer = IF c = n THEN "a" ELSE "b"
        /\ isAnswered = TRUE
        /\ exerciseResults = [k \in 1..n |-> [word |-> "w1", is_correct |-> k <= c]]
        /\ inflight = <<>>
        /\ posts = <<>>
        /\ fault = "none"
        /\ loadsIssued = 1
        /\ loadedRef = DefaultLessonNumber
        /\ lastEvent = "handleAnswer"

ScoreNext ==
    \/ HandleNext
    \/ \E i \in 1..Len(posts) : SaveProgressResolved(i)
    \/ \E i \in 1..Len(posts) : SaveProgressRejected(i)

ScoreSpec == ScoreInit /\ [][ScoreNext]_vars

(* -------------------------- the podcast library ----------------------- *)

\* The status an entry of the list carries.
Statuses == {"queued", "processing", "completed", "error"}

\* The lists GET /podcasts answers with: up to MaxPodcasts entries, each with
\* an id, a status and, in status error, the stored error text.
PodcastLists ==
    { [k \in 1..n |->
          [id |-> k, status |-> f[k],
           error |-> IF f[k] = "error" THEN "Processing failed" ELSE NULL]] :
        n \in 0..MaxPodcasts, f \in [1..MaxPodcasts -> Statuses] }

\* The texts the URL field can hold, as sequences of characters: " " is
\* white space, "u" any other character.
Urls == SeqsUpTo({" ", "u"}, MaxUrlLen)

RECURSIVE TrimStart(_)
TrimStart(t) ==
    IF t # <<>> /\ Head(t) = " " THEN TrimStart(Tail(t)) ELSE t

RECURSIVE TrimEnd(_)
TrimEnd(t) ==
    IF t # <<>> /\ t[Len(t)] = " " THEN TrimEnd(SubSeq(t, 1, Len(t) - 1)) ELSE t

\* A test of the text as it is, white space included.
TrimNothing(t) == t

\* String.prototype.trim
Trim(t) == TrimEnd(TrimStart(t))

LoadPodcastsFailedMessage == "Failed to load podcasts. Please try again."

AddPodcastFailedMessage ==
    "Failed to add podcast. Please check the URL and try again."

\* api.getPodcasts(user?.uid), tagged with the caller of loadPodcasts and
\* with its place in the order of issue.
GetPodcastsRequest(userId, cont, issue) ==
    [api |-> "getPodcasts", user_id |-> userId, cont |-> cont, issue |-> issue]

\* api.processSpotifyPodcast(userId, spotifyUrl)
ProcessSpotifyPodcastRequest(userId, spotifyUrl) ==
    [api |-> "processSpotifyPodcast", user_id |-> userId,
     spotify_url |-> spotifyUrl, cont |-> "add"]

\* What a lesson page and a PodcastItem under study hold: untouched by the
\* library page.
notLibraryVars ==
    <<lesson, isComplete, score, currentQuestionIndex, correctAnswers,
      showingHiragana, selectedAnswer, isAnswered, exerciseResults, posts,
      fault, itemPodcast, itemIsProcessing, itemError, tutorVars, routeVars>>

\* The library page is mounted; its controls are rendered for a signed-in user.
LibraryMounted == page = "podcasts"

LibraryRendered == LibraryMounted /\ user # NULL

LibraryInit ==
    /\ page = "podcasts"
    /\ user = NULL
    /\ lesson = NoLesson
    /\ isComplete = FALSE
    /\ score = 0
    /\ error = NULL
    /\ isLoading = TRUE
    /\ currentQuestionIndex = 0
    /\ correctAnswers = 0
    /\ showingHiragana = FALSE
    /\ selectedAnswer = NULL
    /\ isAnswered = FALSE
    /\ exerciseResults = <<>>
    /\ inflight = <<>>
    /\ posts = <<>>
    /\ fault = "none"
    /\ loadsIssued = 0
    /\ loadedRef = 0
    /\ lastEvent = "mount"
    /\ LibraryIdle

\* loadPodcasts up to its await: setError(null) and the GET.
LoadPodcasts(userId, cont, pending) ==
    /\ error' = NULL
    /\ inflight' = Append(pending, GetPodcastsRequest(userId, cont, loadsIssued + 1))
    /\ loadsIssued' = loadsIssued + 1

\* The user signs in on the library page: the effect runs loadPodcasts.
LibraryLogin ==
    /\ LibraryMounted
    /\ user = NULL
    /\ loadsIssued < MaxLoads
    /\ user' = Uid
    /\ LoadPodcasts(Uid, "effect", inflight)
    /\ lastEvent' = "login"
    /\ UNCHANGED <<page, isLoading, libraryVars, notLibraryVars, loadedRef>>

\* The user signs out on the library page.
LibraryLogout ==
    /\ LibraryMounted
    /\ user # NULL
    /\ user' = NULL
    /\ lastEvent' = "logout"
    /\ UNCHANGED <<page, isLoading, error, inflight, loadsIssued,
                   libraryVars, notLibraryVars, loadedRef>>

\* disabled={isRefreshing || isProcessing} of the Refresh button
RefreshDisabled == isRefreshing \/ isProcessing

\* disabled={isProcessing} of the Add Podcast / Cancel button, the URL
\* field and the form's Add button
AddDisabled == isProcessing

\* The Refresh button.
HandleRefresh ==
    /\ LibraryRendered
    /\ ~RefreshDisabled
    /\ loadsIssued < MaxLoads
    /\ isRefreshing' = TRUE
    /\ LoadPodcasts(user, "refresh", inflight)
    /\ lastEvent' = "handleRefresh"
    /\ UNCHANGED <<page, user, isLoading, podcasts, showAddForm, newPodcastUrl,
                   isProcessing, notLibraryVars, loadedRef>>

\* The Add Podcast / Cancel button.
ToggleAddForm ==
    /\ LibraryRendered
    /\ ~AddDisabled
    /\ showAddForm' = ~showAddForm
    /\ lastEvent' = "toggleAddForm"
    /\ UNCHANGED <<page, user, isLoading, error, inflight, loadsIssued, podcasts,
                   newPodcastUrl, isProcessing, isRefreshing, notLibraryVars, loadedRef>>

\* Typing in the URL field (shown with the form).
ChangeUrl(u) ==
    /\ LibraryRendered
    /\ showAddForm
    /\ ~AddDisabled
    /\ newPodcastUrl' = u
    /\ lastEvent' = "changeUrl"
    /\ UNCHANGED <<page, user, isLoading, error, inflight, loadsIssued, podcasts,
                   showAddForm, isProcessing, isRefreshing, notLibraryVars, loadedRef>>

\* The podcast prop PodcastLibrary builds for an entry of its list: the
\* status is the literal 'completed' and no error text is passed.
ItemProps(podcast) ==
    [id |-> podcast.id, status |-> "completed", error |-> NULL]

\* getStatusDisplay: the status line of a PodcastItem.
GetStatusDisplay(props) ==
    CASE props.status = "queued" -> [text |-> "Queued for processing", icon |-> "spinner"]
      [] props.status = "processing" -> [text |-> "Processing...", icon |-> "spinner"]
      [] props.status = "completed" -> [text |-> "Ready", icon |-> "play"]
      [] props.status = "error" -> [text |-> "Error", icon |-> "alert"]
      [] OTHER -> [text |-> "Unknown", icon |-> "none"]

\* What a PodcastItem renders for its podcast prop: the status line, the
\* blocks its status selects, and the error text when one is shown.
ItemView(props) ==
    [status |-> GetStatusDisplay(props),
     blocks |->
        (IF props.status = "queued" THEN {"startProcessing"} ELSE {})
        \cup (IF props.status = "completed"
              THEN {"progressBars", "startLesson"} ELSE {})
        \cup (IF props.status = "error" /\ props.error # NULL
              THEN {"errorText"} ELSE {}),
     errorText |-> IF props.status = "error" THEN props.error ELSE NULL]

\* podcasts.map(...): the items of the library page, once it has loaded.
LibraryItems ==
    IF LibraryRendered /\ ~isLoading
    THEN [k \in 1..Len(podcasts) |-> ItemView(ItemProps(podcasts[k]))]
    ELSE <<>>

\* {error && (...)}: the error banner of the library page, NULL when none
\* is rendered.
ErrorBanner == IF LibraryRendered THEN error ELSE NULL

\* handleAddPodcast up to its first await, from the form's Add button.
HandleAddPodcast ==
    /\ LibraryRendered
    /\ showAddForm
    /\ ~AddDisabled
    /\ IF Trim(newPodcastUrl) = <<>> \/ user = NULL
       THEN /\ lastEvent' = "handleAddPodcastIgnored"
            /\ UNCHANGED <<error, inflight, loadsIssued, isProcessing>>
       ELSE /\ loadsIssued < MaxLoads
            /\ isProcessing' = TRUE
            /\ error' = NULL
            /\ inflight' = Append(inflight,
                   ProcessSpotifyPodcastRequest(user, newPodcastUrl))
            /\ loadsIssued' = loadsIssued + 1
            /\ lastEvent' = "handleAddPodcast"
    /\ UNCHANGED <<page, user, isLoading, podcasts, showAddForm, newPodcastUrl,
                   isRefreshing, notLibraryVars, loadedRef>>

\* The enqueue POST resolves: handleAddPodcast goes on to loadPodcasts.
ProcessSpotifyPodcastResolved(i) ==
    /\ LibraryMounted
    /\ i \in 1..Len(inflight)
    /\ inflight[i].api = "processSpotifyPodcast"
    /\ LoadPodcasts(inflight[i].user_id, "add", RemoveAt(inflight, i))
    /\ lastEvent' = "podcastProcessed"
    /\ UNCHANGED <<page, user, isLoading, libraryVars, notLibraryVars, loadedRef>>

\* ProcessSpotifyPodcastRejected that also clears the URL field and closes
\* the form, as the success path does.
ProcessSpotifyPodcastRejectedClosingForm(i) ==
    /\ LibraryMounted
    /\ i \in 1..Len(inflight)
    /\ inflight[i].api = "processSpotifyPodcast"
    /\ inflight' = RemoveAt(inflight, i)
    /\ error' = AddPodcastFailedMessage
    /\ isProcessing' = FALSE
    /\ newPodcastUrl' = <<>>
    /\ showAddForm' = FALSE
    /\ lastEvent' = "addPodcastFailed"
    /\ UNCHANGED <<page, user, isLoading, loadsIssued, podcasts,
                   isRefreshing, notLibraryVars, loadedRef>>

\* The enqueue POST rejects: handleAddPodcast's catch and finally.
ProcessSpotifyPodcastRejected(i) ==
    /\ LibraryMounted
    /\ i \in 1..Len(inflight)
    /\ inflight[i].api = "processSpotifyPodcast"
    /\ inflight' = RemoveAt(inflight, i)
    /\ error' = AddPodcastFailedMessage
    /\ isProcessing' = FALSE
    /\ lastEvent' = "addPodcastFailed"
    /\ UNCHANGED <<page, user, isLoading, loadsIssued, podcasts, showAddForm,
                   newPodcastUrl, isRefreshing, notLibraryVars, loadedRef>>

\* What follows `await loadPodcasts()` in handleAddPodcast when the list
\* fetch was its own: the form is cleared and closed, finally isProcessing
\* is reset.
AfterLoadPodcasts(cont) ==
    IF cont = "add"
    THEN /\ newPodcastUrl' = <<>>
         /\ showAddForm' = FALSE
         /\ isProcessing' = FALSE
    ELSE UNCHANGED <<newPodcastUrl, showAddForm, isProcessing>>

\* A list fetch resolves: setPodcasts, then loadPodcasts' finally.
LoadPodcastsResolved(i, data) ==
    /\ LibraryMounted
    /\ i \in 1..Len(inflight)
    /\ inflight[i].api = "getPodcasts"
    /\ inflight' = RemoveAt(inflight, i)
    /\ podcasts' = data
    /\ loadedRef' = inflight[i].issue
    /\ isLoading' = FALSE
    /\ isRefreshing' = FALSE
    /\ AfterLoadPodcasts(inflight[i].cont)
    /\ lastEvent' = "podcastsLoaded"
    /\ UNCHANGED <<page, user, error, loadsIssued, notLibraryVars>>

\* LoadPodcastsRejected that also empties the list.
LoadPodcastsRejectedClearingList(i) ==
    /\ LibraryMounted
    /\ i \in 1..Len(inflight)
    /\ inflight[i].api = "getPodcasts"
    /\ inflight' = RemoveAt(inflight, i)
    /\ error' = LoadPodcastsFailedMessage
    /\ podcasts' = <<>>
    /\ isLoading' = FALSE
    /\ isRefreshing' = FALSE
    /\ AfterLoadPodcasts(inflight[i].cont)
    /\ lastEvent' = "loadPodcastsFailed"
    /\ UNCHANGED <<page, user, loadsIssued, notLibraryVars, loadedRef>>

\* A list fetch rejects: loadPodcasts' catch and finally; loadPodcasts
\* itself does not reject.
LoadPodcastsRejected(i) ==
    /\ LibraryMounted
    /\ i \in 1..Len(inflight)
    /\ inflight[i].api = "getPodcasts"
    /\ inflight' = RemoveAt(inflight, i)
    /\ error' = LoadPodcastsFailedMessage
    /\ isLoading' = FALSE
    /\ isRefreshing' = FALSE
    /\ AfterLoadPodcasts(inflight[i].cont)
    /\ lastEvent' = "loadPodcastsFailed"
    /\ UNCHANGED <<page, user, podcasts, loadsIssued, notLibraryVars, loadedRef>>

LibraryNext ==
    \/ LibraryLogin
    \/ LibraryLogout
    \/ HandleRefresh
    \/ ToggleAddForm
    \/ \E u \in Urls : ChangeUrl(u)
    \/ HandleAddPodcast
    \/ \E i \in 1..Len(inflight) : ProcessSpotifyPodcastResolved(i)
    \/ \E i \in 1..Len(inflight) : ProcessSpotifyPodcastRejected(i)
    \/ \E i \in 1..Len(inflight), data \in PodcastLists : LoadPodcastsResolved(i, data)
    \/ \E i \in 1..Len(inflight) : LoadPodcastsRejected(i)

LibrarySpec == LibraryInit /\ [][LibraryNext]_vars

(* ----------------------------- PodcastItem ----------------------------- *)

\* The members of the api object.
ApiMethods ==
    {"getLesson", "getPodcastLesson", "processSpotifyPodcast", "saveProgress",
     "getPodcasts"}

\* The podcast props a parent can hand to a PodcastItem: any status, an
\* error text or none, and the word counts its progress bars show.
ItemPodcasts ==
    { [id |-> 1, status |-> st, error |-> er, totalWords |-> t,
       wordsEncountered |-> e, wordsMastered |-> m] :
        st \in Statuses, er \in {NULL, "Processing failed"},
        t \in 1..MaxWords, e \in 0..MaxWords, m \in 0..MaxWords }

ItemFailedMessage == "Failed to process podcast. Please try again."

\* api.processQueue(limit)
ProcessQueueRequest(limit) ==
    [api |-> "processQueue", limit |-> limit, cont |-> "startProcessing"]

\* A PodcastItem is rendered for its podcast prop.
ItemMounted == page = "podcastItem" /\ itemPodcast # <<>>

\* What a PodcastItem does not hold.
notItemVars ==
    <<page, user, lesson, isComplete, score, error, isLoading,
      currentQuestionIndex, correctAnswers, showingHiragana, selectedAnswer,
      isAnswered, exerciseResults, posts, fault, loadsIssued, loadedRef,
      podcasts, showAddForm, newPodcastUrl, isProcessing, isRefreshing,
      tutorVars, routeVars>>

ItemInit ==
    /\ page = "podcastItem"
    /\ user = Uid
    /\ lesson = NoLesson
    /\ isComplete = FALSE
    /\ score = 0
    /\ error = NULL
    /\ isLoading = FALSE
    /\ currentQuestionIndex = 0
    /\ correctAnswers = 0
    /\ showingHiragana = FALSE
    /\ selectedAnswer = NULL
    /\ isAnswered = FALSE
    /\ exerciseResults = <<>>
    /\ inflight = <<>>
    /\ posts = <<>>
    /\ fault = "none"
    /\ loadsIssued = 0
    /\ loadedRef = 0
    /\ lastEvent = "mount"
    /\ podcasts = <<>>
    /\ showAddForm = FALSE
    /\ newPodcastUrl = <<>>
    /\ isProcessing = FALSE
    /\ isRefreshing = FALSE
    /\ itemPodcast \in { <<p>> : p \in ItemPodcasts }
    /\ itemIsProcessing = FALSE
    /\ itemError = NULL
    /\ TutorIdle
    /\ RouteIdle

\* handleStartProcessing, from the Start Processing button (rendered for a
\* queued podcast, disabled while isProcessing).  api.processQueue is looked
\* up on the api object: when api has no such member the call throws inside
\* the try, so the catch sets the error and the finally resets isProcessing
\* with nothing sent and onRefresh not called.
HandleStartProcessing ==
    /\ ItemMounted
    /\ "startProcessing" \in ItemView(itemPodcast[1]).blocks
    /\ ~itemIsProcessing
    /\ IF "processQueue" \in ApiMethods
       THEN /\ itemIsProcessing' = TRUE
            /\ itemError' = NULL
            /\ inflight' = Append(inflight, ProcessQueueRequest(1))
       ELSE /\ itemIsProcessing' = FALSE
            /\ itemError' = ItemFailedMessage
            /\ UNCHANGED inflight
    /\ lastEvent' = "handleStartProcessing"
    /\ UNCHANGED <<itemPodcast, notItemVars>>

\* The parent renders the item again with a new podcast prop (same key).
ItemPropsChanged(p) ==
    /\ ItemMounted
    /\ p # itemPodcast[1]
    /\ itemPodcast' = <<p>>
    /\ lastEvent' = "propsChanged"
    /\ UNCHANGED <<itemIsProcessing, itemError, inflight, notItemVars>>

ItemNext ==
    \/ HandleStartProcessing
    \/ \E p \in ItemPodcasts : ItemPropsChanged(p)

ItemSpec == ItemInit /\ [][ItemNext]_vars

\* The option labels of the grading specification: two of them differ in
\* letter case only.
GradeAnswers == {"a", "A", "b"}

\* Exercises offering all three labels, one kind per correct label.
GradeKinds ==
    { [word |-> "g" \o c, options |-> <<"a", "A", "b">>, correct |-> c,
       audio_url |-> NULL] : c \in GradeAnswers }

\* The grading specification: the quiz as mounted for a freshly loaded lesson
\* of 1 .. MaxExercises such exercises, then the quiz's own handlers.
GradeInit ==
    LibraryIdle /\
    \E e \in SeqsUpTo(GradeKinds, MaxExercises) :
        /\ Len(e) >= 1
        /\ page = "lesson"
        /\ user = Uid
        /\ lesson = << [exercises |-> e, lesson_number |-> 2] >>
        /\ isComplete = FALSE
        /\ score = 0
        /\ error = NULL
        /\ isLoading = FALSE
        /\ currentQuestionIndex = 0
        /\ correctAnswers = 0
        /\ showingHiragana = FALSE
        /\ selectedAnswer = NULL
        /\ isAnswered = FALSE
        /\ exerciseResults = <<>>
        /\ inflight = <<>>
        /\ posts = <<>>
        /\ fault = "none"
        /\ loadsIssued = 1
        /\ loadedRef = DefaultLessonNumber
        /\ lastEvent = "effectLoaded"

GradeNext ==
    \/ \E answer \in GradeAnswers : HandleAnswer(answer)
    \/ HandleNext
    \/ ToggleReading
    \/ \E i \in 1..Len(posts) : SaveProgressResolved(i)
    \/ \E i \in 1..Len(posts) : SaveProgressRejected(i)

GradeSpec == GradeInit /\ [][GradeNext]_vars

(* ---------------------------- JapaneseTutor ---------------------------- *)
(* The earlier structured-lesson page: one index, currentExercise, walks    *)
(* over the review (0), the new content (1) and the exercises (2 ..).       *)

\* The exercise of the lesson fetchLesson falls back to.
FallbackExercise ==
    [question |-> "What is the meaning of konnichiwa?",
     options |-> <<"hello", "goodbye", "morning", "evening">>, correct |-> "hello"]

\* The lesson fetchLesson sets when the fetch or response.json() throws.
FallbackLesson == [fields |-> {"review", "new_content", "exercises", "duration"},
                   exercises |-> <<FallbackExercise>>]

\* The body the route answers with on failure, parsed: an object with the
\* single member error.
TutorErrorBody == [fields |-> {"error"}, exercises |-> <<>>]

\* What response.json() can give fetchLesson: a lesson of up to
\* MaxTutorExercises exercises, or the route's error body.
TutorLessons ==
    { [fields |-> {"review", "new_content", "exercises", "duration"},
       exercises |-> [k \in 1..n |->
                        [question |-> "q", options |-> <<"a", "b">>, correct |-> "a"]]] :
        n \in 0..MaxTutorExercises }
    \cup {TutorErrorBody}

\* fetch(`/api/lesson?lesson_number=${lessonNum}`)
LessonRouteRequest(lessonNum) == [api |-> "lessonRoute", lesson_number |-> lessonNum]

TutorMounted == page = "tutor" /\ fault = "none"

\* The branch JapaneseTutor renders.
TutorView ==
    IF fault # "none" THEN "crash"
    ELSE IF currentLesson = <<>> THEN "loading"
    ELSE IF lessonComplete THEN "complete"
    ELSE "lesson"

\* {currentExercise >= 2 && <ExerciseSection exercise={...exercises[currentExercise - 2]} />}
ExerciseSectionRendered ==
    /\ page = "tutor"
    /\ currentLesson # <<>>
    /\ ~lessonComplete
    /\ currentExercise >= 2

\* The index of the exercise handed to ExerciseSection.
ExerciseIndex == currentExercise - 2

\* disabled={currentExercise >= currentLesson.exercises.length + 2}
TutorNextDisabled == currentExercise >= Len(currentLesson[1].exercises) + 2

\* disabled={currentExercise === 0}
TutorPreviousDisabled == currentExercise = 0

\* The render after a state update: with a lesson shown and not complete,
\* it reads review, new_content and exercises of currentLesson and the
\* question of the exercise handed to ExerciseSection; reading a member of
\* undefined throws.
TutorRender ==
    fault' = IF /\ currentLesson' # <<>>
                /\ ~lessonComplete'
                /\ \/ "exercises" \notin currentLesson'[1].fields
                   \/ /\ currentExercise' >= 2
                      /\ currentExercise' - 2 >= Len(currentLesson'[1].exercises)
             THEN "renderError" ELSE fault

\* What JapaneseTutor and its fetches do not hold.
notTutorVars ==
    <<user, lesson, isComplete, score, error, isLoading, currentQuestionIndex,
      correctAnswers, showingHiragana, selectedAnswer, isAnswered,
      exerciseResults, posts, loadsIssued, loadedRef, libraryVars, itemVars,
      routeVars>>

\* JapaneseTutor after its first render and effect: fetchLesson(1) is out.
TutorInit ==
    /\ page = "tutor"
    /\ user = NULL
    /\ lesson = NoLesson
    /\ isComplete = FALSE
    /\ score = 0
    /\ error = NULL
    /\ isLoading = FALSE
    /\ currentQuestionIndex = 0
    /\ correctAnswers = 0
    /\ showingHiragana = FALSE
    /\ selectedAnswer = NULL
    /\ isAnswered = FALSE
    /\ exerciseResults = <<>>
    /\ inflight = <<LessonRouteRequest(1)>>
    /\ posts = <<>>
    /\ fault = "none"
    /\ loadsIssued = 1
    /\ loadedRef = 0
    /\ lastEvent = "mount"
    /\ LibraryIdle

\* fetchLesson's fetch and response.json() succeed: setCurrentLesson(data).
FetchLessonResolved(i, data) ==
    /\ TutorMounted
    /\ i \in 1..Len(inflight)
    /\ inflight' = RemoveAt(inflight, i)
    /\ currentLesson' = <<data>>
    /\ lastEvent' = "lessonFetched"
    /\ UNCHANGED <<page, currentExercise, lessonNumber, progress, lessonComplete,
                   timers, notTutorVars>>
    /\ TutorRender

\* fetchLesson's catch: the fallback lesson is set.
FetchLessonRejected(i) ==
    /\ TutorMounted
    /\ i \in 1..Len(inflight)
    /\ inflight' = RemoveAt(inflight, i)
    /\ currentLesson' = <<FallbackLesson>>
    /\ lastEvent' = "lessonFetchFailed"
    /\ UNCHANGED <<page, currentExercise, lessonNumber, progress, lessonComplete,
                   timers, notTutorVars>>
    /\ TutorRender

\* The Next button.
TutorNext ==
    /\ TutorMounted
    /\ TutorView = "lesson"
    /\ ~TutorNextDisabled
    /\ LET newExercise == currentExercise + 1
           totalWords == Len(currentLesson[1].exercises)
           wordsCompleted == IF newExercise - 2 < totalWords
                             THEN newExercise - 2 ELSE totalWords
       IN /\ currentExercise' = newExercise
          /\ progress' = IF newExercise >= 2
                         THEN <<wordsCompleted * 100, totalWords>> ELSE progress
    /\ lastEvent' = "tutorNext"
    /\ UNCHANGED <<page, inflight, currentLesson, lessonNumber, lessonComplete,
                   timers, notTutorVars>>
    /\ TutorRender

\* The Previous button.
TutorPrevious ==
    /\ TutorMounted
    /\ TutorView = "lesson"
    /\ ~TutorPreviousDisabled
    /\ currentExercise' = IF currentExercise - 1 > 0 THEN currentExercise - 1 ELSE 0
    /\ lastEvent' = "tutorPrevious"
    /\ UNCHANGED <<page, inflight, currentLesson, lessonNumber, progress,
                   lessonComplete, timers, notTutorVars>>
    /\ TutorRender

\* The ExerciseSection shown reports an answer through the onComplete prop
\* the page hands it (the page is written for an ExerciseSection with that
\* prop; the one in components/ takes onAnswer instead):
\* handleExerciseComplete starts its timer, whose callback keeps the
\* currentExercise and currentLesson of this render.
HandleExerciseComplete ==
    /\ TutorMounted
    /\ TutorView = "lesson"
    /\ ExerciseSectionRendered
    /\ Len(timers) < MaxTimers
    /\ timers' = Append(timers, [currentExercise |-> currentExercise,
                                 totalWords |-> Len(currentLesson[1].exercises)])
    /\ lastEvent' = "exerciseAnswered"
    /\ UNCHANGED <<page, inflight, currentLesson, currentExercise, lessonNumber,
                   progress, lessonComplete, notTutorVars>>
    /\ TutorRender

\* The timer's callback, 1500 ms later.
ExerciseTimerFired(i) ==
    /\ TutorMounted
    /\ i \in 1..Len(timers)
    /\ timers' = RemoveAt(timers, i)
    /\ IF timers[i].currentExercise + 1 < timers[i].totalWords
       THEN /\ currentExercise' = currentExercise + 1
            /\ progress' = <<(timers[i].currentExercise + 1) * 100, timers[i].totalWords>>
            /\ UNCHANGED lessonComplete
       ELSE /\ lessonComplete' = TRUE
            /\ progress' = <<100, 1>>
            /\ UNCHANGED currentExercise
    /\ lastEvent' = "exerciseTimer"
    /\ UNCHANGED <<page, inflight, currentLesson, lessonNumber, notTutorVars>>
    /\ TutorRender

\* handleStartNewLesson, handed to LessonComplete as onStartNewLesson (the
\* LessonComplete in components/ takes onNextLesson instead); the new
\* lessonNumber makes the effect run fetchLesson.
HandleStartNewLesson ==
    /\ TutorMounted
    /\ TutorView = "complete"
    /\ lessonNumber < MaxLessonNumber
    /\ currentExercise' = 0
    /\ lessonComplete' = FALSE
    /\ progress' = <<0, 1>>
    /\ lessonNumber' = lessonNumber + 1
    /\ inflight' = Append(inflight, LessonRouteRequest(lessonNumber + 1))
    /\ lastEvent' = "handleStartNewLesson"
    /\ UNCHANGED <<page, currentLesson, timers, notTutorVars>>
    /\ TutorRender

TutorStep ==
    \/ \E i \in 1..Len(inflight), data \in TutorLessons : FetchLessonResolved(i, data)
    \/ \E i \in 1..Len(inflight) : FetchLessonRejected(i)
    \/ TutorNext
    \/ TutorPrevious
    \/ HandleExerciseComplete
    \/ \E i \in 1..Len(timers) : ExerciseTimerFired(i)
    \/ HandleStartNewLesson

TutorSpec == TutorInit /\ [][TutorStep]_vars

(* ------------------------- GET /api/lesson route ----------------------- *)
(* Texts are sequences of characters: "{" and "}", " " for white space,     *)
(* "1" for a digit and "e" for the member "error":"Failed to fetch lesson". *)

\* The query strings of a request: each parameter absent (<<>>) or present
\* with a value, the empty one included.
RouteRequests ==
    { [user_id |-> u, lesson_number |-> n] :
        u \in {<<>>, <<"">>, <<"u1">>}, n \in {<<>>, <<"1">>, <<"null">>} }

\* a || b for strings: b when a is null or empty.
OrDefault(param, default) ==
    IF param = <<>> \/ param[1] = "" THEN default ELSE param[1]

\* `${value}` of searchParams.get's result: null is written "null".
Interpolate(param) == IF param = <<>> THEN "null" ELSE param[1]

\* The backend URL's query, as the backend reads it.
BackendUrl(q) ==
    [user_id |-> OrDefault(q.user_id, "default_user"),
     lesson_number |-> Interpolate(q.lesson_number)]

BodyTexts == SeqsUpTo({"{", "}", " ", "1", "e"}, MaxBodyLen)

SyntaxError == [type |-> "SyntaxError", digits |-> 0, members |-> <<>>]

\* JSON.parse of a body text: a number, an object with no member or with
\* the error member, white space allowed around tokens; anything else throws.
JsonParse(text) ==
    LET core == Trim(text)
        n == Len(core)
    IN IF n >= 1 /\ \A k \in 1..n : core[k] = "1"
       THEN [type |-> "number", digits |-> n, members |-> <<>>]
       ELSE IF n >= 2 /\ core[1] = "{" /\ core[n] = "}"
                 /\ Trim(SubSeq(core, 2, n - 1)) \in {<<>>, <<"e">>}
       THEN [type |-> "object", digits |-> 0,
             members |-> Trim(SubSeq(core, 2, n - 1))]
       ELSE SyntaxError

\* JSON.stringify of a parsed value.
JsonStringify(value) ==
    IF value.type = "number" THEN [k \in 1..value.digits |-> "1"]
    ELSE <<"{">> \o value.members \o <<"}">>

\* { error: 'Failed to fetch lesson' }
RouteErrorValue == [type |-> "object", digits |-> 0, members |-> <<"e">>]

HttpStatuses == {200, 201, 404, 500}

\* response.ok that holds for every status.
ResponseAlwaysOk(status) == TRUE

\* response.ok
ResponseOk(status) == status \in 200..299

\* NextResponse.json(data, init): the status defaults to 200.
NextResponseJson(data, status) == [status |-> status, body |-> JsonStringify(data)]

RouteMounted == page = "route"

\* What the route handler does not hold.
notRouteVars ==
    <<page, user, lesson, isComplete, score, error, isLoading,
      currentQuestionIndex, correctAnswers, showingHiragana, selectedAnswer,
      isAnswered, exerciseResults, inflight, posts, fault, loadsIssued,
      loadedRef, libraryVars, itemVars, tutorVars>>

RouteInit ==
    /\ page = "route"
    /\ user = NULL
    /\ lesson = NoLesson
    /\ isComplete = FALSE
    /\ score = 0
    /\ error = NULL
    /\ isLoading = FALSE
    /\ currentQuestionIndex = 0
    /\ correctAnswers = 0
    /\ showingHiragana = FALSE
    /\ selectedAnswer = NULL
    /\ isAnswered = FALSE
    /\ exerciseResults = <<>>
    /\ inflight = <<>>
    /\ posts = <<>>
    /\ fault = "none"
    /\ loadsIssued = 0
    /\ loadedRef = 0
    /\ lastEvent = "mount"
    /\ LibraryIdle

\* GET up to its await: the parameters are read and the backend is fetched.
RouteGet(q) ==
    /\ RouteMounted
    /\ routeRequest = <<>>
    /\ routeRequest' = <<q>>
    /\ backendRequest' = <<[url |-> BackendUrl(q), answer |-> <<>>]>>
    /\ lastEvent' = "routeGet"
    /\ UNCHANGED <<routeResponse, notRouteVars>>

\* The backend answers: a non-OK status throws inside the try, and so does
\* response.json() on a body that is not JSON; otherwise the parsed body is
\* returned.
BackendAnswered(status, body) ==
    /\ RouteMounted
    /\ backendRequest # <<>>
    /\ backendRequest[1].answer = <<>>
    /\ backendRequest' =
          <<[backendRequest[1] EXCEPT !.answer = <<[status |-> status, body |-> body]>>]>>
    /\ routeResponse' =
          IF ResponseOk(status) /\ JsonParse(body) # SyntaxError
          THEN <<NextResponseJson(JsonParse(body), 200)>>
          ELSE <<NextResponseJson(RouteErrorValue, 500)>>
    /\ lastEvent' = "backendAnswered"
    /\ UNCHANGED <<routeRequest, notRouteVars>>

\* The backend fetch rejects: the catch returns the 500 response.
BackendThrew ==
    /\ RouteMounted
    /\ backendRequest # <<>>
    /\ backendRequest[1].answer = <<>>
    /\ backendRequest' =
          <<[backendRequest[1] EXCEPT !.answer = <<[status |-> 0, body |-> <<>>]>>]>>
    /\ routeResponse' = <<NextResponseJson(RouteErrorValue, 500)>>
    /\ lastEvent' = "backendThrew"
    /\ UNCHANGED <<routeRequest, notRouteVars>>

RouteNext ==
    \/ \E q \in RouteRequests : RouteGet(q)
    \/ \E status \in HttpStatuses, body \in BodyTexts : BackendAnswered(status, body)
    \/ BackendThrew

RouteSpec == RouteInit /\ [][RouteNext]_vars

(* ------------------------------- claims -------------------------------- *)

AnsweredCount == currentQuestionIndex + (IF isAnswered THEN 1 ELSE 0)

LastPost == posts[Len(posts)]

\* The step sends exactly one POST /progress and resolves none.
OnePostSent ==
    /\ Len(posts') = Len(posts) + 1
    /\ SubSeq(posts', 1, Len(posts)) = posts

\* C1: in a lesson of N >= 1 exercises the index counts the Submit+Advance
\* cycles done and the log holds one result per Submit; the Advance at the last
\* exercise puts the page in Complete and hands onComplete a log of exactly N
\* results; and the page becomes Complete by no other step and with no
\* shorter log.
C1_CompleteAfterNCycles ==
    /\ [](View = "quiz" => Len(exerciseResults) = AnsweredCount)
    /\ [][(HandleNext /\ currentQuestionIndex = Len(lesson[1].exercises) - 1)
            => /\ isComplete' /\ View' = "complete"
               /\ Len(exerciseResults) = Len(lesson[1].exercises)
               /\ OnePostSent
               /\ LastPost'.data.exercises = exerciseResults]_vars
    /\ [][(~isComplete /\ isComplete')
            => /\ HandleNext
               /\ currentQuestionIndex = Len(lesson[1].exercises) - 1
               /\ Len(exerciseResults) = Len(lesson[1].exercises)]_vars

\* C1 witness: a two-exercise lesson completed, its two results handed over.
C1_Witness ==
    /\ View = "complete"
    /\ lastEvent = "handleNext"
    /\ Len(lesson[1].exercises) = 2
    /\ Len(LastPost.data.exercises) = 2

\* round-half-up(100 * c / n) in exact arithmetic
RoundHalfUpPercent(c, n) == (200 * c + n) \div (2 * n)

\* C2: the score the Advance at the last exercise emits equals
\* round-half-up(100 * correctCount / N) and lies in 0..100.
C2_ScoreIsRoundHalfUp ==
    [][(HandleNext /\ currentQuestionIndex = Len(lesson[1].exercises) - 1)
         => /\ score' = RoundHalfUpPercent(correctAnswers, Len(lesson[1].exercises))
            /\ score' \in 0..100]_vars

\* C3: a Submit on an exercise that is already answered changes neither
\* correctCount, nor the log, nor the selected answer, nor the index.
C3_SubmitIdempotent ==
    [][(isAnswered /\ \E answer \in {"a", "b"} : HandleAnswer(answer))
         => UNCHANGED <<correctAnswers, exerciseResults, selectedAnswer,
                        currentQuestionIndex, isAnswered>>]_vars

\* C3 witness: a second Submit happened on an answered exercise, one result logged.
C3_Witness ==
    /\ View = "quiz"
    /\ lastEvent = "handleAnswerAgain"
    /\ isAnswered
    /\ Len(exerciseResults) = currentQuestionIndex + 1

\* A step that sends a POST /progress: any change of the outstanding POSTs
\* other than one of them resolving.
ProgressPosted ==
    /\ posts' # posts
    /\ \A i \in 1..Len(posts) : posts' # RemoveAt(posts, i)

\* C4: a progress submission is sent only by the step that takes the quiz to
\* Complete, that step sends exactly one, and none is sent from Loading,
\* InProgress short of completion, Error or an already completed session.
C4_OneSubmissionAtComplete ==
    [][/\ ProgressPosted
            => /\ View = "quiz" /\ ~isComplete
               /\ View' = "complete" /\ isComplete'
               /\ OnePostSent
       /\ (~isComplete /\ isComplete')
            => /\ OnePostSent
               /\ LastPost'.api = "saveProgress"
               /\ LastPost'.data.completed]_vars

\* C4 witness: a session just completed, with its single submission outstanding.
C4_Witness ==
    /\ View = "complete"
    /\ lastEvent = "handleNext"
    /\ Len(posts) = 1

\* C5: a rejected progress submission changes nothing on either page: a page
\* in Complete stays in Complete with its score, no error is set and nothing
\* escapes handleComplete; and the completing Advance has set the final score
\* before the submission can fail.
C5_SaveFailureKeepsComplete ==
    /\ [][(\E i \in 1..Len(posts) : SaveProgressRejected(i))
            => /\ UNCHANGED <<lesson, isComplete, score, error, isLoading>>
               /\ View' = View
               /\ fault' = "none"]_vars
    /\ []((lastEvent = "handleNext" /\ isComplete)
            => /\ View = "complete"
               /\ posts # <<>>
               /\ score = LastPost.data.score)

\* C5 witness: the podcast lesson page shows the completion screen with the
\* final score after its submission was rejected.
C5_Witness ==
    /\ page = "podcastLesson"
    /\ lastEvent = "progressSaveFailed"
    /\ View = "complete"
    /\ score = 100
    /\ error = NULL

\* The same on the structured lesson page.
C5_WitnessLessonPage ==
    /\ page = "lesson"
    /\ lastEvent = "progressSaveFailed"
    /\ View = "complete"
    /\ score = 50

\* A step in which the fetch of a Load fails, on either path that fetches.
LoadFails ==
    \/ \E i \in 1..Len(inflight) : LoadLessonRejected(i)
    \/ \E i \in 1..Len(inflight) : NewLessonRejected(i)

\* A step that issues a lesson fetch.
FetchIssued == loadsIssued' # loadsIssued

\* C6: a failed fetch leaves the page with isLoading false and an error
\* message, which a signed-in user sees as the Error view; nothing fetches by
\* itself afterwards: a fetch is issued only by the manual retry / restart
\* button or by the user signing in again after signing out, and from the
\* Error view only by the manual retry.
C6_NoAutomaticRetry ==
    /\ [][LoadFails
            => /\ ~isLoading'
               /\ error' # NULL
               /\ (user # NULL => View' = "error")
               /\ ~FetchIssued]_vars
    /\ [][FetchIssued => (StartNewLesson \/ (Login /\ user = NULL))]_vars
    /\ [][(View = "error" /\ FetchIssued) => StartNewLesson]_vars

\* C6 witness: the Error view after the effect's fetch failed, nothing in flight.
C6_Witness ==
    /\ View = "error"
    /\ lastEvent = "effectLoadFailed"
    /\ error = LoadFailedMessage
    /\ ~isLoading
    /\ inflight = <<>>

\* C6 as stated: once a fetch has failed (error set, not loading) a fetch is
\* issued by the manual retry only.
C6_NoFetchUntilManualRetry ==
    [][(error # NULL /\ ~isLoading /\ FetchIssued) => StartNewLesson]_vars

\* A lesson the user can answer: it has exercises and each one has options.
WellFormed(l) ==
    /\ Len(l.exercises) > 0
    /\ \A k \in 1..Len(l.exercises) : Len(l.exercises[k].options) > 0

\* C7: Try Again from the Error view fetches the same lesson reference, and
\* once that fetch has succeeded the signed-in user sees the quiz at index 0,
\* unanswered, and no longer the Error view.
C7_RetryLeavesError ==
    /\ [][(StartNewLesson /\ View = "error")
            => /\ Len(inflight') = Len(inflight) + 1
               /\ inflight'[Len(inflight')].lesson_number = DefaultLessonNumber]_vars
    /\ []((/\ lastEvent = "tryAgainLoaded"
           /\ user # NULL
           /\ WellFormed(lesson[1]))
            => /\ View = "quiz"
               /\ currentQuestionIndex = 0
               /\ ~isAnswered)

\* C8: once the fetch issued by Start New Lesson has succeeded, the page is
\* not Complete, its score is 0 and the quiz holds nothing of an earlier
\* session: index 0, unanswered, correctCount 0, empty log.
C8_RestartDiscardsSession ==
    (lastEvent = "nextLessonLoaded" /\ user # NULL)
        => /\ ~isComplete
           /\ score = 0
           /\ currentQuestionIndex = 0
           /\ ~isAnswered
           /\ selectedAnswer = NULL
           /\ correctAnswers = 0
           /\ exerciseResults = <<>>

\* C9: the fetch issued by Start New Lesson asks for a lesson_number greater
\* than the one asked for by the Load of the session just completed.
C9_RestartIncrementsLessonNumber ==
    [][(StartNewLesson /\ View = "complete")
         => /\ Len(inflight') = Len(inflight) + 1
            /\ inflight'[Len(inflight')].lesson_number > loadedRef]_vars

\* A step in which a lesson fetch succeeds.
LoadSucceeds ==
    \/ \E i \in 1..Len(inflight), data \in Lessons : LoadLessonResolved(i, data)
    \/ \E i \in 1..Len(inflight), data \in Lessons : NewLessonResolved(i, data)

\* C10: a fetched lesson without exercises, or with an exercise without
\* options, puts the signed-in user's page in the Error view, and LessonContent
\* is never shown for such a lesson.
C10_MalformedLessonIsError ==
    /\ [][(LoadSucceeds /\ user # NULL /\ ~WellFormed(lesson'[1]))
            => (View' = "error" /\ error' # NULL)]_vars
    /\ [](PageView = "content" => WellFormed(lesson[1]))

\* C11: whenever LessonContent is rendered for a lesson with exercises, the
\* current exercise index is one of the lesson's indices 0 .. N - 1, so the
\* current question is an exercise of the lesson.
C11_IndexInRange ==
    (PageView = "content" /\ Len(lesson[1].exercises) >= 1)
        => currentQuestionIndex \in 0..(Len(lesson[1].exercises) - 1)

\* The log after a step is the log before it, or that log with one entry
\* appended at the end.
LogAppendOnly ==
    \/ exerciseResults' = exerciseResults
    \/ /\ Len(exerciseResults') = Len(exerciseResults) + 1
       /\ SubSeq(exerciseResults', 1, Len(exerciseResults)) = exerciseResults

\* C12: whenever LessonContent is rendered for a lesson of N >= 1 exercises
\* the log holds one entry per exercise answered so far (index + 1 if the
\* current one is answered, else index) and no more than N entries; and while
\* LessonContent stays rendered every step leaves the log as it is or appends
\* one entry at its end.
C12_LogMatchesAnswered ==
    /\ []((PageView = "content" /\ Len(lesson[1].exercises) >= 1)
            => /\ Len(exerciseResults) = AnsweredCount
               /\ Len(exerciseResults) <= Len(lesson[1].exercises))
    /\ [][(PageView = "content" /\ PageView' = "content") => LogAppendOnly]_vars

\* LessonContent stays in the tree over the step: one quiz session.
SameSession == PageView = "content" /\ PageView' = "content"

\* C13: within one quiz session the index never decreases; it changes only
\* by handleNext, which adds exactly 1; Submit, Toggle reading and Play audio
\* leave it unchanged.
C13_IndexMonotonic ==
    /\ [][SameSession
            => \/ currentQuestionIndex' = currentQuestionIndex
               \/ /\ HandleNext
                  /\ currentQuestionIndex' = currentQuestionIndex + 1]_vars
    /\ [][(HandleNext /\ SameSession)
            => currentQuestionIndex' = currentQuestionIndex + 1]_vars
    /\ [][((\E answer \in {"a", "b"} : HandleAnswer(answer))
             \/ ToggleReading \/ PlayAudio)
            => currentQuestionIndex' = currentQuestionIndex]_vars

\* C13 witness: the session is at its second exercise after an Advance.
C13_Witness ==
    /\ View = "quiz"
    /\ lastEvent = "handleNext"
    /\ currentQuestionIndex = 1
    /\ ~isAnswered

\* C13 witness for the handlers that keep the index: audio played at index 1.
C13_WitnessPlayAudio ==
    /\ View = "quiz"
    /\ lastEvent = "playAudio"
    /\ currentQuestionIndex = 1

\* C14: handleNext runs only on an answered exercise; so the index moves on
\* only from an exercise whose result is in the log (none is skipped), and
\* the page becomes Complete only from the last exercise, answered.
C14_AdvanceOnlyWhenAnswered ==
    /\ [][HandleNext => (View = "quiz" /\ isAnswered)]_vars
    /\ [][(SameSession /\ currentQuestionIndex' # currentQuestionIndex)
            => /\ isAnswered
               /\ Len(exerciseResults) = currentQuestionIndex + 1]_vars
    /\ [][(~isComplete /\ isComplete')
            => /\ isAnswered
               /\ selectedAnswer # NULL
               /\ IsLastQuestion]_vars

\* C14 witness: the Advance left an exercise that had been answered (wrongly).
C14_Witness ==
    /\ View = "quiz"
    /\ lastEvent = "handleNext"
    /\ currentQuestionIndex = 1
    /\ Len(exerciseResults) = 1
    /\ ~exerciseResults[1].is_correct

\* C15: a Submit on an unanswered exercise appends exactly one result whose
\* is_correct says whether the answer is the very string `correct`, adds 1 to
\* correctCount exactly in that case, and leaves the session answered at the
\* same index.
C15_SubmitGradesByEquality ==
    [][\A answer \in GradeAnswers :
         (HandleAnswer(answer) /\ ~isAnswered)
            => /\ exerciseResults' =
                    Append(exerciseResults,
                           [word |-> CurrentQuestion.word,
                            is_correct |-> (answer = CurrentQuestion.correct)])
               /\ correctAnswers' = correctAnswers +
                    (IF answer = CurrentQuestion.correct THEN 1 ELSE 0)
               /\ selectedAnswer' = answer
               /\ isAnswered'
               /\ currentQuestionIndex' = currentQuestionIndex
               /\ View' = "quiz"]_vars

\* C15 witness: an answer differing from `correct` in letter case only was
\* submitted and graded wrong.
C15_Witness ==
    /\ View = "quiz"
    /\ lastEvent = "handleAnswer"
    /\ selectedAnswer = "A"
    /\ CurrentQuestion.correct = "a"
    /\ correctAnswers = 0
    /\ exerciseResults = <<[word |-> "ga", is_correct |-> FALSE]>>

\* C15 witness for a right answer, at the second exercise.
C15_WitnessCorrect ==
    /\ View = "quiz"
    /\ lastEvent = "handleAnswer"
    /\ currentQuestionIndex = 1
    /\ selectedAnswer = CurrentQuestion.correct
    /\ exerciseResults[2].is_correct

\* C16: the step into Complete sends one saveProgress whose data say
\* completed, carry the score the quiz computed and the page now shows, the
\* lesson length as questions_total and the whole log in answer order; the
\* structured page sends lesson_type 'regular' with a lesson_number (the
\* lesson's own, or 1 when it has none), the podcast page lesson_type
\* 'podcast' with the episode id of the lesson that was loaded.
C16_ProgressMatchesSession ==
    [][(~isComplete /\ isComplete')
         => /\ OnePostSent
            /\ LastPost'.api = "saveProgress"
            /\ LastPost'.user_id = user
            /\ LastPost'.data.completed
            /\ LastPost'.data.score = score'
            /\ score' = ScoreOf(correctAnswers, Len(lesson[1].exercises))
            /\ LastPost'.data.questions_total = Len(lesson[1].exercises)
            /\ LastPost'.data.exercises = exerciseResults
            /\ Len(exerciseResults) = Len(lesson[1].exercises)
            /\ (page = "lesson"
                  => /\ LastPost'.lesson_type = "regular"
                     /\ LastPost'.data.lesson_number >= 1
                     /\ (lesson[1].lesson_number # 0
                           => LastPost'.data.lesson_number = lesson[1].lesson_number))
            /\ (page = "podcastLesson"
                  => /\ LastPost'.lesson_type = "podcast"
                     /\ LastPost'.data.lesson_id = loadedRef
                     /\ loadedRef = EpisodeId)]_vars

\* C16 witness: the podcast lesson page has sent the progress of a
\* two-exercise session answered wrong then right.
C16_Witness ==
    /\ page = "podcastLesson"
    /\ View = "complete"
    /\ lastEvent = "handleNext"
    /\ score = 50
    /\ LastPost.lesson_type = "podcast"
    /\ LastPost.data.lesson_id = EpisodeId
    /\ LastPost.data.exercises =
         <<[word |-> "w1", is_correct |-> FALSE], [word |-> "w2", is_correct |-> TRUE]>>

\* C16 witness on the structured page, for a lesson without lesson_number.
C16_WitnessLessonPage ==
    /\ page = "lesson"
    /\ View = "complete"
    /\ lastEvent = "handleNext"
    /\ lesson[1].lesson_number = 0
    /\ LastPost.lesson_type = "regular"
    /\ LastPost.data.lesson_number = 1

\* A text that is empty or holds white space only.
IsBlank(t) == \A k \in 1..Len(t) : t[k] = " "

\* C17: handleAddPodcast called while the URL field is empty or holds only
\* white space sends no request and changes nothing of the library state:
\* list, URL field, form flag, error, isProcessing, isRefreshing (nor
\* isLoading).
C17_EmptyUrlIsNoOp ==
    [][(HandleAddPodcast /\ IsBlank(newPodcastUrl))
         => /\ inflight' = inflight
            /\ UNCHANGED <<podcasts, newPodcastUrl, showAddForm, error,
                           isProcessing, isRefreshing, isLoading>>]_vars

\* C17 witness: Add was clicked on a URL of white space only while an error
\* was displayed, and nothing was sent.
C17_Witness ==
    /\ lastEvent = "handleAddPodcastIgnored"
    /\ newPodcastUrl = <<" ", " ">>
    /\ error = LoadPodcastsFailedMessage
    /\ showAddForm
    /\ ~isProcessing
    /\ inflight = <<>>

\* C18: every entry of the list is rendered according to its own status:
\* queued with the Start Processing action, processing with a spinner only,
\* completed with the progress bars and Start Lesson, error with its stored
\* error text and nothing to retry with.
C18_RenderedByOwnStatus ==
    (LibraryRendered /\ ~isLoading)
        => \A k \in 1..Len(podcasts) :
              LET e == podcasts[k]
                  v == LibraryItems[k]
              IN /\ e.status = "queued" => "startProcessing" \in v.blocks
                 /\ e.status = "processing"
                      => (v.blocks = {} /\ v.status.icon = "spinner")
                 /\ e.status = "completed"
                      => v.blocks = {"progressBars", "startLesson"}
                 /\ e.status = "error"
                      => (v.blocks = {"errorText"} /\ v.errorText = e.error)

\* The list fetches of one kind of caller that are outstanding.
Outstanding(cont) ==
    { i \in 1..Len(inflight) : inflight[i].cont = cont }

\* C19: while a Refresh's list fetch is outstanding isRefreshing is true and
\* the Refresh control disabled; while an Add's POST or its follow-up list
\* fetch is outstanding isProcessing is true and the Add control disabled; so
\* neither control ever has two requests of its own outstanding.
C19_GuardCoversRequest ==
    /\ Outstanding("refresh") # {} => (isRefreshing /\ RefreshDisabled)
    /\ Outstanding("add") # {} => (isProcessing /\ AddDisabled)
    /\ Cardinality(Outstanding("refresh")) <= 1
    /\ Cardinality(Outstanding("add")) <= 1

\* C20: Start Processing on a queued entry sends exactly one request, asking
\* the backend to process one queued item, and changes no entry status on
\* the client.
C20_StartProcessingSendsOneRequest ==
    [][HandleStartProcessing
         => /\ Len(inflight') = Len(inflight) + 1
            /\ SubSeq(inflight', 1, Len(inflight)) = inflight
            /\ inflight'[Len(inflight')].api = "processQueue"
            /\ inflight'[Len(inflight')].limit = 1
            /\ itemPodcast' = itemPodcast]_vars

\* A list fetch fails / succeeds in this step.
ListFetchFails == \E i \in 1..Len(inflight) : LoadPodcastsRejected(i)

RefreshFetchSucceeds(data) ==
    \E i \in 1..Len(inflight) :
        inflight[i].cont = "refresh" /\ LoadPodcastsResolved(i, data)

\* C21: a failed list fetch sets the page-level error message (shown to the
\* signed-in user), leaves the displayed list as it was and clears isLoading
\* and isRefreshing; a manual Refresh clears the error when clicked, no step
\* but a failing request sets it again, and the refresh's fetch succeeding
\* replaces the list with the fetched entries and leaves the error cleared.
C21_FetchFailureKeepsList ==
    /\ [][ListFetchFails
            => /\ error' = LoadPodcastsFailedMessage
               /\ (user # NULL => ErrorBanner' = LoadPodcastsFailedMessage)
               /\ podcasts' = podcasts
               /\ ~isLoading' /\ ~isRefreshing']_vars
    /\ [][HandleRefresh => error' = NULL /\ ErrorBanner' = NULL]_vars
    /\ [][(error = NULL /\ error' # NULL)
            => lastEvent' \in {"loadPodcastsFailed", "addPodcastFailed"}]_vars
    /\ [][\A data \in PodcastLists :
            RefreshFetchSucceeds(data)
              => /\ podcasts' = data
                 /\ error' = error
                 /\ ~isLoading']_vars

\* C21 witness: a list fetch has just failed while a fetched, non-empty list
\* was displayed; the list is still there under the error banner.
C21_Witness ==
    /\ lastEvent = "loadPodcastsFailed"
    /\ ErrorBanner = LoadPodcastsFailedMessage
    /\ podcasts # <<>>
    /\ Len(LibraryItems) = Len(podcasts)
    /\ ~isRefreshing

\* C21 witness: a Refresh clicked under the error banner has succeeded.
C21_WitnessRefreshed ==
    /\ lastEvent = "podcastsLoaded"
    /\ ErrorBanner = NULL
    /\ podcasts # <<>>
    /\ loadsIssued >= 2
    /\ inflight = <<>>

\* The button of the podcast lesson page's Error view is clicked.
PodcastErrorButtonClicked == ReturnToLibrary /\ View = "error"

\* C22: on the podcast lesson page a failed Load shows the signed-in user the
\* Error view with the message, and the button of that view issues a fetch of
\* the same episode id, the page staying mounted.
C22_PodcastLoadFailureOffersRetry ==
    /\ [][(page = "podcastLesson" /\ LoadFails)
            => /\ error' = LoadFailedMessage
               /\ (user # NULL => View' = "error")]_vars
    /\ [][PodcastErrorButtonClicked
            => /\ page' = "podcastLesson"
               /\ Len(inflight') = Len(inflight) + 1
               /\ inflight'[Len(inflight')].api = "getPodcastLesson"
               /\ inflight'[Len(inflight')].episode_id = EpisodeId]_vars

\* C23: while a lesson fetch is unresolved the page is in Loading (isLoading
\* true); the step in which a fetch resolves leaves isLoading false and the
\* signed-in user's page in InProgress (LessonContent rendered) on success and
\* in Error on failure, for the effect's fetch and for startNewLesson's.
C23_LoadLeavesLoading ==
    /\ [](inflight # <<>> => isLoading)
    /\ [][LoadSucceeds
            => /\ ~isLoading'
               /\ (user # NULL => PageView' = "content")]_vars
    /\ [][LoadFails
            => /\ ~isLoading'
               /\ (user # NULL => PageView' = "error")]_vars

\* The number of entries of a log whose is_correct is true.
RECURSIVE CorrectIn(_)
CorrectIn(log) ==
    IF log = <<>> THEN 0
    ELSE (IF log[Len(log)].is_correct THEN 1 ELSE 0)
         + CorrectIn(SubSeq(log, 1, Len(log) - 1))

\* C24: the questions_correct of the SessionProgress sent by the Advance at
\* the last exercise equals the number of entries of the submitted log whose
\* is_correct is true, which is correctCount.
C24_QuestionsCorrectIsCorrectCount ==
    [][(HandleNext /\ IsLastQuestion)
         => /\ OnePostSent
            /\ LastPost'.data.questions_correct = CorrectIn(exerciseResults)
            /\ LastPost'.data.questions_correct = correctAnswers]_vars

\* correctCount is the number of log entries marked correct.
CorrectCountMatchesLog == correctAnswers = CorrectIn(exerciseResults)

\* C25: whenever LessonContent is rendered for a lesson of N >= 1 exercises,
\* correctAnswers is the number of log entries whose is_correct is true, and
\* 0 <= correctAnswers <= log length <= N.
C25_CorrectCountMatchesLog ==
    (PageView = "content" /\ Len(lesson[1].exercises) >= 1)
        => /\ CorrectCountMatchesLog
           /\ 0 <= correctAnswers
           /\ correctAnswers <= Len(exerciseResults)
           /\ Len(exerciseResults) <= Len(lesson[1].exercises)

\* C26: a list fetch that resolves with other entries than those displayed
\* was issued after the fetch whose response is displayed: an older response
\* never overwrites a newer one.
C26_NewestResponseWins ==
    [][\A i \in 1..Len(inflight), data \in PodcastLists :
          (LoadPodcastsResolved(i, data) /\ loadedRef # 0 /\ data # podcasts)
            => inflight[i].issue > loadedRef]_vars

\* The enqueue POST fails / succeeds in this step.
EnqueueFails == \E i \in 1..Len(inflight) : ProcessSpotifyPodcastRejected(i)

EnqueueSucceeds == \E i \in 1..Len(inflight) : ProcessSpotifyPodcastResolved(i)

\* The list fetches outstanding, whoever issued them.
ListFetches == { i \in 1..Len(inflight) : inflight[i].api = "getPodcasts" }

\* C27: when the enqueue POST fails the error message is set, the typed URL
\* and the open form are kept, no list fetch is issued and isProcessing is
\* cleared; when it succeeds exactly one list fetch is issued in that step,
\* with URL, form and isProcessing as they were; the URL is cleared and the
\* form closed under isProcessing only in the step in which that list fetch
\* settles, and that step clears isProcessing; isProcessing is true exactly
\* while the POST or its list fetch is outstanding.
C27_EnqueueOutcome ==
    /\ [][EnqueueFails
            => /\ error' = AddPodcastFailedMessage
               /\ newPodcastUrl' = newPodcastUrl /\ newPodcastUrl' # <<>>
               /\ showAddForm' /\ showAddForm
               /\ Cardinality(ListFetches') = Cardinality(ListFetches)
               /\ Len(inflight') = Len(inflight) - 1
               /\ ~isProcessing']_vars
    /\ [][EnqueueSucceeds
            => /\ Cardinality(ListFetches') = Cardinality(ListFetches) + 1
               /\ Len(inflight') = Len(inflight)
               /\ inflight'[Len(inflight')].api = "getPodcasts"
               /\ Cardinality(Outstanding("add")') = 1
               /\ newPodcastUrl' = newPodcastUrl
               /\ showAddForm' = showAddForm
               /\ isProcessing']_vars
    /\ [][(isProcessing /\ (newPodcastUrl' # newPodcastUrl \/ showAddForm' # showAddForm))
            => /\ \E i \in Outstanding("add") :
                    /\ inflight[i].api = "getPodcasts"
                    /\ inflight' = RemoveAt(inflight, i)
               /\ newPodcastUrl' = <<>>
               /\ ~showAddForm'
               /\ ~isProcessing']_vars
    /\ [](isProcessing <=> Outstanding("add") # {})

\* C27 witness: the enqueue POST has just failed; the message is shown over
\* the open form, which still holds the typed URL.
C27_Witness ==
    /\ lastEvent = "addPodcastFailed"
    /\ ErrorBanner = AddPodcastFailedMessage
    /\ showAddForm
    /\ Trim(newPodcastUrl) # <<>>
    /\ ~isProcessing

\* C27 witness: the enqueue POST has succeeded and its list fetch is
\* outstanding, the form still open with the URL.
C27_WitnessRefetching ==
    /\ lastEvent = "podcastProcessed"
    /\ Cardinality(Outstanding("add")) = 1
    /\ \A i \in Outstanding("add") : inflight[i].api = "getPodcasts"
    /\ showAddForm
    /\ newPodcastUrl # <<>>
    /\ isProcessing

\* A step that sends a request to the backend: a lesson fetch, a list fetch
\* or an enqueue POST (all counted by loadsIssued), or a progress POST.
RequestIssued == FetchIssued \/ ProgressPosted

\* Nothing but the log-in prompt is rendered below the header.
OnlyLoginPrompt ==
    IF page = "podcasts"
    THEN ~LibraryRendered /\ ErrorBanner = NULL /\ LibraryItems = <<>>
    ELSE View = "login"

\* C28: while no user is signed in no step of the page sends a backend
\* request, whatever the user does and whichever request completes, and the
\* page renders only the log-in prompt.
C28_NoRequestWhileSignedOut ==
    /\ [][(user = NULL /\ user' = NULL) => ~RequestIssued]_vars
    /\ [](user = NULL => OnlyLoginPrompt)

\* C29: whenever JapaneseTutor renders the exercise section (a lesson with
\* an exercises array shown, not complete, currentExercise >= 2) the index
\* currentExercise - 2 is one of 0 .. exercises.length - 1.
C29_TutorExerciseIndexInRange ==
    (ExerciseSectionRendered /\ "exercises" \in currentLesson[1].fields)
        => ExerciseIndex \in 0..(Len(currentLesson[1].exercises) - 1)

\* The backend's answer to the route's fetch: status 0 stands for a fetch
\* that rejected.
BackendAnswer == backendRequest[1].answer[1]

\* C30: once the backend fetch has settled, by an answer or by a rejection,
\* the route has returned a response; the response is 200 with the backend's
\* JSON value when the backend answered with an OK status and a JSON body,
\* and 500 with {error: 'Failed to fetch lesson'} when the fetch rejected or
\* the status was not OK (and also when an OK body was not JSON); a request
\* without user_id is forwarded with user_id = default_user, and one with a
\* user_id with that user_id.
C30_RouteAlwaysResponds ==
    /\ []((backendRequest # <<>> /\ backendRequest[1].answer # <<>>)
            => /\ routeResponse # <<>>
               /\ IF /\ BackendAnswer.status \in 200..299
                     /\ JsonParse(BackendAnswer.body) # SyntaxError
                  THEN /\ routeResponse[1].status = 200
                       /\ JsonParse(routeResponse[1].body) = JsonParse(BackendAnswer.body)
                  ELSE /\ routeResponse[1].status = 500
                       /\ JsonParse(routeResponse[1].body) = RouteErrorValue)
    /\ [](backendRequest # <<>>
            => /\ routeRequest[1].user_id = <<>>
                    => backendRequest[1].url.user_id = "default_user"
               /\ routeRequest[1].user_id \in {<<"u1">>}
                    => backendRequest[1].url.user_id = "u1")

\* C30 witness: a request without user_id was forwarded as default_user and
\* the backend's OK answer, written with white space, came back as 200.
C30_Witness ==
    /\ routeResponse # <<>>
    /\ routeRequest[1].user_id = <<>>
    /\ backendRequest[1].url.user_id = "default_user"
    /\ BackendAnswer.status = 201
    /\ BackendAnswer.body = <<"{", " ", "}">>
    /\ routeResponse[1] = [status |-> 200, body |-> <<"{", "}">>]

\* C30 witness: the backend answered 404 and the route returned the 500.
C30_WitnessNotOk ==
    /\ routeResponse # <<>>
    /\ BackendAnswer.status = 404
    /\ JsonParse(BackendAnswer.body) # SyntaxError
    /\ routeResponse[1] = [status |-> 500, body |-> <<"{", "e", "}">>]

====
